---- MODULE Spec2Model ----
(***************************************************************************)
(* The chart renderer of src/core/graphics/renderer/index.ts:              *)
(* facetRows, ChartRenderer.renderGlyphMarks, ChartRenderer.renderChart    *)
(* and ChartRenderer.render, as a state machine over one ChartRenderer     *)
(* and one caller of facetRows.                                            *)
(*                                                                         *)
(* JavaScript values are modelled as follows.  null/undefined is the       *)
(* record Null.  A scalar cell of a dataset row is a pair <<kind, text>>   *)
(* so that the number 1 and the string "1" are different values.  Arrays   *)
(* are sequences; the code's 0-based positions (row indices, glyph         *)
(* indices) keep their 0-based values and are shifted by one only where    *)
(* a sequence is subscripted.  A thrown exception is a result record with  *)
(* fault = TRUE.  What a call writes is kept with the object it is written *)
(* on, so that a write on an object of the caller shows in the caller's    *)
(* data.                                                                   *)
(***************************************************************************)
EXTENDS Integers, Sequences, FiniteSets, TLC

VARIABLES manager, renderEvents, pc, group, log, prevGroup, facetArgs, facetResult

vars == <<manager, renderEvents, pc, group, log, prevGroup, facetArgs, facetResult>>

(***************************************************************************)
(* Bounds of the model.                                                    *)
(***************************************************************************)
MaxRows == 2
MaxIndices == 3
MaxElements == 2
MaxGlyphs == 2
MaxMarks == 2

Null == [type |-> "null"]

Range(s) == {s[i] : i \in 1..Len(s)}

SeqsUpTo(S, n) == UNION {[1..k -> S] : k \in 0..n}

(***************************************************************************)
(* Row faceting                                                            *)
(***************************************************************************)

\* A row cell absent from the row reads as undefined.
Undefined == <<"undefined", "">>

\* row[c]
RowGet(row, c) == IF c \in DOMAIN row THEN row[c] ELSE Undefined

\* Arrays of numbers live in a heap of the call, so that an array reached
\* through two names is one array.  An address is a position of the heap;
\* the caller's rows and indices arrays are at the first two addresses.
RowsAddress == 1

IndicesAddress == 2

\* The heap facetRows is entered with.
callHeap(rows, indices) == <<rows, indices>>

\* [index]  (line 39): a new array, at an address not in use.
newArray(heap, index) ==
  [address |-> Len(heap) + 1, heap |-> Append(heap, <<index>>)]

\* array.push(index)  (line 37): the array at that address grows in place.
push(heap, address, index) == [heap EXCEPT ![address] = Append(@, index)]

\* MultistringHashMap: an insertion-ordered map from value tuples to values,
\* kept as the sequence of its entries; two keys are the same key iff they
\* are element-wise exactly equal.  A value is held by reference.
EmptyMap == <<>>

MapHas(map, key) == \E n \in 1..Len(map) : map[n].key = key

MapIndex(map, key) == CHOOSE n \in 1..Len(map) : map[n].key = key

MapGet(map, key) == map[MapIndex(map, key)].value

MapSet(map, key, value) ==
  IF MapHas(map, key)
    THEN [map EXCEPT ![MapIndex(map, key)].value = value]
    ELSE Append(map, [key |-> key, value |-> value])

MapValues(map) == [n \in 1..Len(map) |-> map[n].value]

\* columns.map((c) => row[c])
facetValues(row, columns) == [j \in 1..Len(columns) |-> RowGet(row, columns[j])]

\* facets.set(facetValues, [index])  (line 39)
setNewGroup(st, fv, a) ==
  [facets |-> MapSet(st.facets, fv, a.address), heap |-> a.heap]

\* facetStep with a slip: the group of a tuple seen before is replaced
\* instead of extended.
facetStepOverwrite(st, rows, index, columns) ==
  LET row == st.heap[rows][index + 1]
      fv  == facetValues(row, columns)
  IN setNewGroup(st, fv, newArray(st.heap, index))

\* One iteration of the loop of facetRows (lines 33-41), over the map and
\* the heap: a tuple seen before has index pushed onto the array the map
\* holds for it, a new tuple gets a new array.
facetStep(st, rows, index, columns) ==
  LET row == st.heap[rows][index + 1]
      fv  == facetValues(row, columns)
  IN IF MapHas(st.facets, fv)
       THEN [facets |-> st.facets,
             heap |-> push(st.heap, MapGet(st.facets, fv), index)]
       ELSE setNewGroup(st, fv, newArray(st.heap, index))

\* for (const index of indices): the array is read as the loop goes.
RECURSIVE facetLoop(_, _, _, _, _)
facetLoop(st, rows, indices, columns, n) ==
  IF n > Len(st.heap[indices])
    THEN st
    ELSE facetLoop(facetStep(st, rows, st.heap[indices][n], columns),
                   rows, indices, columns, n + 1)

\* noColumnsResult with a slip: one group per index instead of one group.
noColumnsResultSplit(heap, indices) ==
  [groups |-> [n \in 1..Len(heap[indices]) |-> Len(heap) + n],
   heap |-> heap \o [n \in 1..Len(heap[indices]) |-> <<heap[indices][n]>>]]

\* return [indices]  (line 30): the one group is the caller's array itself.
noColumnsResult(heap, indices) == [groups |-> <<indices>>, heap |-> heap]

\* An optional columns argument: isNull stands for columns == null.
NoColumns == [isNull |-> TRUE, items |-> <<>>]

SomeColumns(items) == [isNull |-> FALSE, items |-> items]

\* Array.from(facets.values())  (line 42), with the heap the loop left.
facetGroups(st) == [groups |-> MapValues(st.facets), heap |-> st.heap]

\* facetRows over a heap, rows and indices being addresses: the addresses
\* of the groups it returns, and the heap it leaves.
facetRowsIn(heap, rows, indices, columns) ==
  IF columns.isNull
    THEN noColumnsResult(heap, indices)
    ELSE facetGroups(facetLoop([facets |-> EmptyMap, heap |-> heap],
                               rows, indices, columns.items, 1))

\* The arrays at the addresses of a result.
groupsOf(r) == [n \in 1..Len(r.groups) |-> r.heap[r.groups[n]]]

\* facetRows(rows, indices, columns): the groups it returns.
facetRows(rows, indices, columns) ==
  groupsOf(facetRowsIn(callHeap(rows, indices), RowsAddress, IndicesAddress, columns))

\* What a call of facetRows leaves in the caller's two arrays.
facetRowsWrites(rows, indices, columns) ==
  [rows |-> facetRowsIn(callHeap(rows, indices), RowsAddress, IndicesAddress,
                        columns).heap[RowsAddress],
   indices |-> facetRowsIn(callHeap(rows, indices), RowsAddress, IndicesAddress,
                           columns).heap[IndicesAddress]]

(***************************************************************************)
(* Scene graph                                                             *)
(***************************************************************************)

NoKey == "(no key)"

\* makeGroup(elements): a group with no key, no transform, no selectable.
makeGroup(elements) ==
  [type |-> "group", elements |-> elements, key |-> NoKey,
   transform |-> Null, selectable |-> Null]

\* One assignment or push the renderer makes: the object written to, as it
\* is when the statement runs, the property written, and the value assigned
\* or pushed.  An array is named by the object that holds it and the
\* property it is held in.
Write(op, target, field, value) ==
  [op |-> op, target |-> target, field |-> field, value |-> value]

\* A local array of renderChart, made by the array literal of line 113
\* (graphics) or line 142 (glyphArrays).
LocalArray(name) == [type |-> "array", name |-> name]

(***************************************************************************)
(* Helpers of ../../common                                                 *)
(***************************************************************************)

Min(a, b) == IF a < b THEN a ELSE b

\* zipArray(a, b): the pairs <<a[k], b[k]>> up to the shorter length.
zipArray(a, b) == [k \in 1..Min(Len(a), Len(b)) |-> <<a[k], b[k]>>]

\* transpose(matrix): row k of the result is the k-th entry of every row of
\* the matrix, in row order; the empty matrix has the empty transpose.
transpose(matrix) ==
  IF Len(matrix) = 0
    THEN <<>>
    ELSE [k \in 1..Len(matrix[1]) |-> [i \in 1..Len(matrix) |-> matrix[i][k]]]

\* getById(items, id): the first item with that _id, null when there is none.
getById(items, id) ==
  IF \E n \in 1..Len(items) : items[n]._id = id
    THEN items[CHOOSE n \in 1..Len(items) :
                 /\ items[n]._id = id
                 /\ \A m \in 1..(n - 1) : items[m]._id # id]
    ELSE Null

RECURSIVE Flatten(_)
Flatten(ss) == IF Len(ss) = 0 THEN <<>> ELSE Head(ss) \o Flatten(Tail(ss))

(***************************************************************************)
(* The state manager and the drawing capabilities (external collaborators) *)
(* A state whose cls is "none" has no resolvable class; graphics says      *)
(* whether its drawing capability returns a primitive or null.             *)
(***************************************************************************)

\* Prototypes.isType(classID, type): classID is type or starts with "type.",
\* tabulated for the class ids of the model.
isType(classID, type) ==
  <<classID, type>> \in {<<"plot-segment.cartesian", "plot-segment">>,
                         <<"mark.rect", "mark">>,
                         <<"legend.categorical", "legend">>}

\* manager.getMarkClass / getPlotSegmentClass / getChartElementClass /
\* getChartClass: the class object of a state, undefined when unresolvable.
getClass(state) ==
  IF state.cls = "none" THEN Null ELSE [type |-> "class", state |-> state]

getMarkClass(state) == getClass(state)

getPlotSegmentClass(state) == getClass(state)

getChartElementClass(state) == getClass(state)

getChartClass(state) == getClass(state)

\* The primitive a drawing capability returns, or null when it declines.
Primitive(by, state) ==
  IF state.graphics = "prim"
    THEN [type |-> "primitive", by |-> by, state |-> state.id, selectable |-> Null]
    ELSE Null

\* A record of one capability invocation, as it is appended to the log.
\* No glyph index (null) is written NoIndex.
NoIndex == 0 - 1

Call(op, state, offset, index, emphasized) ==
  [op |-> op, state |-> state.id, offset |-> offset, index |-> index,
   emphasized |-> emphasized]

NoOffset == [x |-> 0, y |-> 0]

\* plotSegmentClass.getCoordinateSystem()
getCoordinateSystem(cls) == [type |-> "coordinateSystem", of |-> cls.state.id]

\* coordinateSystem.getBaseTransform()
getBaseTransform(coordinateSystem) ==
  [type |-> "baseTransform", of |-> coordinateSystem.of]

\* plotSegmentClass.getPlotSegmentGraphics(gGlyphs, manager): the foreground
\* of the plot segment, composed from the glyph-layer group.
getPlotSegmentGraphics(cls, gGlyphs) ==
  [type |-> "plotSegmentGraphics", state |-> cls.state.id, elements |-> <<gGlyphs>>]

\* plotSegmentClass.getPlotSegmentBackgroundGraphics(manager)
getPlotSegmentBackgroundGraphics(cls) ==
  [type |-> "plotSegmentBackground", state |-> cls.state.id]

(***************************************************************************)
(* ChartRenderer.renderGlyphMarks                                          *)
(***************************************************************************)

\* selectable with a slip: the row indices of the first glyph for every glyph.
selectableFirstRows(plotSegment, plotSegmentState, index, cls) ==
  [plotSegment |-> plotSegment._id,
   glyphIndex |-> index,
   rowIndices |-> plotSegmentState.dataRowIndices[1],
   enableTooltips |-> cls.state.properties.enableTooltips,
   enableContextMenu |-> cls.state.properties.enableContextMenu,
   enableSelection |-> cls.state.properties.enableSelection]

\* The selectable metadata of lines 87-94.
selectable(plotSegment, plotSegmentState, index, cls) ==
  [plotSegment |-> plotSegment._id,
   glyphIndex |-> index,
   rowIndices |-> plotSegmentState.dataRowIndices[index + 1],
   enableTooltips |-> cls.state.properties.enableTooltips,
   enableContextMenu |-> cls.state.properties.enableContextMenu,
   enableSelection |-> cls.state.properties.enableSelection]

\* markVisible with a slip: the visibility flag is not consulted.
markVisibleAlways(mark) == TRUE

\* mark.properties.visible  (line 75)
markVisible(mark) == mark.properties.visible

\* Lines 86-98: the slot made from what the capability returned.
markSlot(plotSegment, plotSegmentState, index, cls, g) ==
  IF g # Null
    THEN makeGroup(<<[g EXCEPT !.selectable =
                        selectable(plotSegment, plotSegmentState, index, cls)]>>)
    ELSE Null

\* Line 87: g.selectable = ... is an assignment to the primitive the
\* capability returned.
markWrites(plotSegment, plotSegmentState, index, cls, g) ==
  IF g # Null
    THEN <<Write("assign", g, "selectable",
                 selectable(plotSegment, plotSegmentState, index, cls))>>
    ELSE <<>>

\* Lines 78-98, for a mark that is visible: an unresolvable class throws at
\* cls.getGraphics.
drawMark(plotSegment, plotSegmentState, offset, state, index, markState, cls) ==
  IF cls = Null
    THEN [fault |-> TRUE, slot |-> Null, calls |-> <<>>, writes |-> <<>>]
    ELSE [fault |-> FALSE,
          slot |-> markSlot(plotSegment, plotSegmentState, index, cls,
                            Primitive("mark.getGraphics", markState)),
          writes |-> markWrites(plotSegment, plotSegmentState, index, cls,
                                Primitive("mark.getGraphics", markState)),
          calls |-> <<Call("mark.getGraphics", markState, offset, index,
                           IF state.emphasized THEN "true" ELSE "false")>>]

\* The callback of the map at lines 74-99, for one [mark, markState] pair:
\* the slot, the capability invocations made, and whether it threw.
renderMark(plotSegment, plotSegmentState, offset, state, index, mark, markState) ==
  IF ~markVisible(mark)
    THEN [fault |-> FALSE, slot |-> Null, calls |-> <<>>, writes |-> <<>>]
    ELSE drawMark(plotSegment, plotSegmentState, offset, state, index, markState,
                  getMarkClass(markState))

\* The first position of rs that threw, Len(rs) + 1 when none did.
FirstFault(rs) ==
  IF \E k \in 1..Len(rs) : rs[k].fault
    THEN CHOOSE k \in 1..Len(rs) : rs[k].fault /\ \A j \in 1..(k - 1) : ~rs[j].fault
    ELSE Len(rs) + 1

\* The invocations made by a sequence of steps that stops at its first throw.
CallsUntilFault(rs) ==
  Flatten([k \in 1..Min(FirstFault(rs), Len(rs)) |-> rs[k].calls])

\* The writes made by a sequence of steps that stops at its first throw.
WritesUntilFault(rs) ==
  Flatten([k \in 1..Min(FirstFault(rs), Len(rs)) |-> rs[k].writes])

\* The array the map returns, unless one of its callbacks threw.
mappedSlots(rs) ==
  IF FirstFault(rs) <= Len(rs)
    THEN [fault |-> TRUE, groups |-> <<>>, calls |-> CallsUntilFault(rs),
          writes |-> WritesUntilFault(rs)]
    ELSE [fault |-> FALSE,
          groups |-> [k \in 1..Len(rs) |-> rs[k].slot],
          calls |-> CallsUntilFault(rs),
          writes |-> WritesUntilFault(rs)]

\* Lines 74-99 over the zipped pairs.
mapMarks(plotSegment, plotSegmentState, offset, state, index, pairs) ==
  mappedSlots([k \in 1..Len(pairs) |->
                 renderMark(plotSegment, plotSegmentState, offset, state, index,
                            pairs[k][1], pairs[k][2])])

\* Reading glyph.marks of a null glyph throws (line 74).
renderGlyphMarks(plotSegment, plotSegmentState, offset, glyph, state, index) ==
  IF glyph = Null
    THEN [fault |-> TRUE, groups |-> <<>>, calls |-> <<>>, writes |-> <<>>]
    ELSE mapMarks(plotSegment, plotSegmentState, offset, state, index,
                  zipArray(glyph.marks, state.marks))

(***************************************************************************)
(* ChartRenderer.renderChart                                               *)
(***************************************************************************)

\* glyphOffset with a slip: the anchor is added instead of subtracted.
glyphOffsetAdded(glyphState) ==
  [x |-> glyphState.attributes.x + glyphState.marks[1].attributes.x,
   y |-> glyphState.attributes.y + glyphState.marks[1].attributes.y]

\* Lines 147-150 and 155: the offset of one glyph instance.
glyphOffset(glyphState) ==
  LET anchorX == glyphState.marks[1].attributes.x
      anchorY == glyphState.marks[1].attributes.y
      offsetX == glyphState.attributes.x - anchorX
      offsetY == glyphState.attributes.y - anchorY
  IN [x |-> offsetX, y |-> offsetY]

toLayers(t) == [k \in 1..Len(t) |-> makeGroup(t[k])]

\* glyphElements with a slip: the glyph arrays are wrapped without transposing.
glyphElementsUntransposed(glyphArrays) == toLayers(glyphArrays)

\* transpose(glyphArrays).map((x) => makeGroup(x))  (line 163)
glyphElements(glyphArrays) == toLayers(transpose(glyphArrays))

\* glyphArrays.push(g)  (line 160), unless renderGlyphMarks threw.
glyphPushed(r) ==
  [fault |-> r.fault, groups |-> r.groups, calls |-> r.calls,
   writes |-> IF r.fault
                THEN r.writes
                ELSE Append(r.writes,
                            Write("push", LocalArray("glyphArrays"), "items", r.groups))]

\* One iteration of the loop at lines 143-161; reading marks[0] of a glyph
\* state without marks throws.
renderGlyph(plotSegment, plotSegmentState, mark, glyphIndex, glyphState) ==
  IF Len(glyphState.marks) = 0
    THEN [fault |-> TRUE, groups |-> <<>>, calls |-> <<>>, writes |-> <<>>]
    ELSE glyphPushed(renderGlyphMarks(plotSegment, plotSegmentState,
                                      glyphOffset(glyphState), mark, glyphState,
                                      glyphIndex))

\* Lines 164-165: the glyph-layer group with the base transform.
glyphLayerGroup(coordinateSystem, layers) ==
  [makeGroup(layers) EXCEPT !.transform = getBaseTransform(coordinateSystem)]

\* Lines 166-179: the element group of a plot segment.
plotSegmentGroup(element, plotSegmentClass, gGlyphs) ==
  [makeGroup(<<makeGroup(<<getPlotSegmentBackgroundGraphics(plotSegmentClass)>>),
               getPlotSegmentGraphics(plotSegmentClass, gGlyphs)>>)
     EXCEPT !.key = element._id]

\* keyTarget with a slip: the key is assigned to the chart element.
keyTargetElement(element, gElement) == element

\* gElement.key = element._id  (lines 179, 192, 199): the object assigned to.
keyTarget(element, gElement) == gElement

\* The assignments and pushes of lines 165-179, on the objects they are
\* made on: the glyph-layer group, the background group and the element
\* group of lines 164, 171 and 176.
plotSegmentWrites(element, plotSegmentClass, coordinateSystem, layers) ==
  LET gGlyphs == glyphLayerGroup(coordinateSystem, layers)
      g == getPlotSegmentGraphics(plotSegmentClass, gGlyphs)
      plotSegmentBackgroundElements == getPlotSegmentBackgroundGraphics(plotSegmentClass)
      gBackgroundElements == makeGroup(<<plotSegmentBackgroundElements>>)
  IN <<Write("assign", makeGroup(layers), "transform",
             getBaseTransform(coordinateSystem)),
       Write("push", makeGroup(<<>>), "elements", plotSegmentBackgroundElements),
       Write("push", makeGroup(<<>>), "elements", gBackgroundElements),
       Write("push", makeGroup(<<gBackgroundElements>>), "elements", g),
       Write("assign", keyTarget(element, makeGroup(<<gBackgroundElements, g>>)),
             "key", element._id)>>

\* Lines 162-180 once the glyph loop has run (rs: its iterations).
assemblePlotSegment(element, plotSegmentState, plotSegmentClass, rs) ==
  IF FirstFault(rs) <= Len(rs)
    THEN [fault |-> TRUE, gElement |-> Null,
          writes |-> WritesUntilFault(rs),
          calls |-> <<Call("getCoordinateSystem", plotSegmentState, NoOffset,
                           NoIndex, "undefined")>> \o CallsUntilFault(rs)]
    ELSE [fault |-> FALSE,
          gElement |->
            plotSegmentGroup(element, plotSegmentClass,
              glyphLayerGroup(getCoordinateSystem(plotSegmentClass),
                glyphElements([n \in 1..Len(rs) |-> rs[n].groups]))),
          writes |-> WritesUntilFault(rs)
                     \o plotSegmentWrites(element, plotSegmentClass,
                          getCoordinateSystem(plotSegmentClass),
                          glyphElements([n \in 1..Len(rs) |-> rs[n].groups])),
          calls |-> <<Call("getCoordinateSystem", plotSegmentState, NoOffset,
                           NoIndex, "undefined")>>
                    \o CallsUntilFault(rs)
                    \o <<Call("getPlotSegmentGraphics", plotSegmentState, NoOffset,
                              NoIndex, "undefined"),
                         Call("getPlotSegmentBackgroundGraphics", plotSegmentState,
                              NoOffset, NoIndex, "undefined")>>]

\* Lines 137-161: an unresolvable plot-segment class throws at
\* getCoordinateSystem; otherwise every glyph state is rendered in order.
renderGlyphs(plotSegment, plotSegmentState, mark, plotSegmentClass) ==
  IF plotSegmentClass = Null
    THEN [fault |-> TRUE, gElement |-> Null, calls |-> <<>>, writes |-> <<>>]
    ELSE assemblePlotSegment(plotSegment, plotSegmentState, plotSegmentClass,
           [n \in 1..Len(plotSegmentState.glyphs) |->
              renderGlyph(plotSegment, plotSegmentState, mark, n - 1,
                          plotSegmentState.glyphs[n])])

\* The plot-segment branch, lines 134-180.
renderPlotSegment(chart, element, elementState) ==
  renderGlyphs(element, elementState, getById(chart.glyphs, element.glyph),
               getPlotSegmentClass(elementState))

\* gElement.elements.push(g) and gElement.key = element._id (lines 191-192
\* and 198-199), on the group made at line 183 or 195.
elementWrites(element, g) ==
  <<Write("push", makeGroup(<<>>), "elements", g),
    Write("assign", keyTarget(element, makeGroup(<<g>>)), "key", element._id)>>

\* Lines 183-193 and 195-200: the element group holding what the element's
\* capability returned; an unresolvable class throws at getGraphics.
elementGroup(element, elementState, elementClass, op) ==
  IF elementClass = Null
    THEN [fault |-> TRUE, gElement |-> Null, calls |-> <<>>, writes |-> <<>>]
    ELSE [fault |-> FALSE,
          gElement |-> [makeGroup(<<Primitive(op, elementState)>>)
                          EXCEPT !.key = element._id],
          writes |-> elementWrites(element, Primitive(op, elementState)),
          calls |-> <<Call(op, elementState, NoOffset, NoIndex, "undefined")>>]

\* The standalone-mark branch, lines 182-193.
renderMarkElement(element, elementState) ==
  elementGroup(element, elementState, getMarkClass(elementState), "mark.getGraphics")

\* The generic chart-element branch, lines 195-200.
renderChartElement(element, elementState) ==
  elementGroup(element, elementState, getChartElementClass(elementState),
               "element.getGraphics")

\* elementVisible with a slip: every element is rendered.
elementVisibleAlways(element) == TRUE

\* element.properties.visible  (line 129)
elementVisible(element) == element.properties.visible

\* graphics.push(gElement), unless the branch threw.
pushed(r) ==
  [fault |-> r.fault,
   pushed |-> IF r.fault THEN <<>> ELSE <<r.gElement>>,
   calls |-> r.calls,
   writes |-> IF r.fault
                THEN r.writes
                ELSE Append(r.writes,
                            Write("push", LocalArray("graphics"), "items", r.gElement))]

\* The body of the loop at lines 128-202 for one [element, elementState]
\* pair: what it pushes to graphics (nothing when the element is skipped).
renderElement(chart, element, elementState) ==
  IF ~elementVisible(element)
    THEN [fault |-> FALSE, pushed |-> <<>>, calls |-> <<>>, writes |-> <<>>]
    ELSE pushed(IF isType(element.classID, "plot-segment")
                  THEN renderPlotSegment(chart, element, elementState)
                  ELSE IF isType(element.classID, "mark")
                    THEN renderMarkElement(element, elementState)
                    ELSE renderChartElement(element, elementState))

\* graphics.push(bg) and graphics.push(linkGroup)  (lines 118 and 123)
chartWrites(bg) ==
  (IF bg # Null
     THEN <<Write("push", LocalArray("graphics"), "items", bg)>>
     ELSE <<>>)
  \o <<Write("push", LocalArray("graphics"), "items", makeGroup(<<>>))>>

\* Lines 113-123 and 204: the root group over the background, the link
\* group and what the loop pushed (rs: its iterations).
assembleChart(chartState, bg, rs) ==
  IF FirstFault(rs) <= Len(rs)
    THEN [fault |-> TRUE, group |-> Null,
          writes |-> chartWrites(bg) \o WritesUntilFault(rs),
          calls |-> <<Call("getBackgroundGraphics", chartState, NoOffset, NoIndex,
                           "undefined")>> \o CallsUntilFault(rs)]
    ELSE [fault |-> FALSE,
          writes |-> chartWrites(bg) \o WritesUntilFault(rs),
          group |-> makeGroup((IF bg # Null THEN <<bg>> ELSE <<>>)
                              \o <<makeGroup(<<>>)>>
                              \o Flatten([n \in 1..Len(rs) |-> rs[n].pushed])),
          calls |-> <<Call("getBackgroundGraphics", chartState, NoOffset, NoIndex,
                           "undefined")>> \o CallsUntilFault(rs)]

\* Lines 125-202 over the zipped pairs.
renderElements(chart, chartState, elementsAndStates) ==
  assembleChart(chartState, Primitive("getBackgroundGraphics", chartState),
                [n \in 1..Len(elementsAndStates) |->
                   renderElement(chart, elementsAndStates[n][1],
                                 elementsAndStates[n][2])])

\* An unresolvable chart class throws at getBackgroundGraphics (line 116).
renderChart(dataset, chart, chartState) ==
  IF getChartClass(chartState) = Null
    THEN [fault |-> TRUE, group |-> Null, calls |-> <<>>, writes |-> <<>>]
    ELSE renderElements(chart, chartState,
                        zipArray(chart.elements, chartState.elements))

\* afterRenderedCalls with a slip: the notification is fired a second time.
afterRenderedCallsTwice(events) ==
  IF events # Null /\ events.afterRendered
    THEN <<[op |-> "afterRendered"], [op |-> "afterRendered"]>>
    ELSE <<>>

\* Lines 213-215: the notification is called when one was supplied.
afterRenderedCalls(events) ==
  IF events # Null /\ events.afterRendered
    THEN <<[op |-> "afterRendered"]>>
    ELSE <<>>

\* The object after one write: an assignment sets the property, a push
\* appends to the array held in it.
written(obj, w) ==
  IF w.op = "push"
    THEN [obj EXCEPT ![w.field] = Append(@, w.value)]
    ELSE [f \in DOMAIN obj \cup {w.field} |-> IF f = w.field THEN w.value ELSE obj[f]]

RECURSIVE writtenAll(_, _)
writtenAll(obj, ws) ==
  IF Len(ws) = 0 THEN obj ELSE writtenAll(written(obj, Head(ws)), Tail(ws))

\* An object of the model after the writes of a call: the writes made on
\* that very object, in order.
after(obj, writes) ==
  LET On(w) == w.target = obj IN writtenAll(obj, SelectSeq(writes, On))

afterEach(objs, writes) == [n \in 1..Len(objs) |-> after(objs[n], writes)]

\* A glyph state and its mark states.
afterGlyphState(gs, writes) ==
  after([gs EXCEPT !.marks = afterEach(@, writes)], writes)

\* An element state and its glyph states.
afterElementState(es, writes) ==
  after([es EXCEPT !.glyphs = [i \in 1..Len(@) |-> afterGlyphState(@[i], writes)]],
        writes)

\* A glyph template and its marks.
afterGlyph(glyph, writes) ==
  after([glyph EXCEPT !.marks = afterEach(@, writes)], writes)

\* What a render leaves in the manager: every object of the dataset, the
\* chart and the state tree, after the writes the call made.
renderWrites(m, writes) ==
  [dataset |-> after(m.dataset, writes),
   chart |->
     after([elements |-> afterEach(m.chart.elements, writes),
            glyphs |-> [t \in 1..Len(m.chart.glyphs) |->
                          afterGlyph(m.chart.glyphs[t], writes)]],
           writes),
   chartState |->
     after([m.chartState EXCEPT
              !.elements = [n \in 1..Len(@) |-> afterElementState(@[n], writes)]],
           writes)]

(***************************************************************************)
(* Inputs: charts with their state trees, and arguments of facetRows       *)
(***************************************************************************)

\* The rows a dataset is made of: column c holds a string, a numeric string,
\* the number it spells, the empty string, or is absent.
RowOptions ==
  {[c |-> <<"string", "a">>, d |-> <<"string", "x">>],
   [c |-> <<"string", "a">>, d |-> <<"string", "y">>],
   [c |-> <<"string", "1">>, d |-> <<"string", "x">>],
   [c |-> <<"number", "1">>, d |-> <<"string", "x">>],
   [c |-> <<"string", "">>, d |-> <<"string", "x">>],
   [d |-> <<"string", "x">>]}

ColumnsOptions ==
  {NoColumns, SomeColumns(<<>>), SomeColumns(<<"c">>), SomeColumns(<<"c", "d">>)}

NoFacetInput == [rows |-> <<>>, indices |-> <<>>, columns |-> NoColumns]

ElementId(n) == "e" \o ToString(n)

\* The chart elements a chart is made of.  An element that is skipped or
\* whose class is unresolvable is listed once per kind.
ElementOptions ==
  {[classID |-> c, visible |-> FALSE, glyph |-> "g1", cls |-> "ok", graphics |-> "prim"] :
     c \in {"plot-segment.cartesian", "mark.rect", "legend.categorical"}}
  \cup
  {[classID |-> "plot-segment.cartesian", visible |-> v, glyph |-> "g1",
    cls |-> "none", graphics |-> "prim"] : v \in BOOLEAN}
  \cup
  {[classID |-> "plot-segment.cartesian", visible |-> TRUE, glyph |-> g,
    cls |-> "ok", graphics |-> "prim"] : g \in {"g1", "gX"}}
  \cup
  {[classID |-> "mark.rect", visible |-> TRUE, glyph |-> "g1",
    cls |-> "none", graphics |-> "prim"]}
  \cup
  {[classID |-> "mark.rect", visible |-> TRUE, glyph |-> "g1",
    cls |-> "ok", graphics |-> g] : g \in {"prim", "null"}}
  \cup
  {[classID |-> "legend.categorical", visible |-> TRUE, glyph |-> "g1",
    cls |-> c, graphics |-> "prim"] : c \in {"ok", "none"}}

VisiblePlotSegment ==
  [classID |-> "plot-segment.cartesian", visible |-> TRUE, glyph |-> "g1",
   cls |-> "ok", graphics |-> "prim"]

\* Where a glyph instance and its first mark are placed.
Positions ==
  {[x |-> 12, y |-> 9, anchorX |-> 5, anchorY |-> 5],
   [x |-> 3, y |-> 4, anchorX |-> 7, anchorY |-> 0]}

AllDraw(M) == [k \in 1..M |-> [cls |-> "ok", graphics |-> "prim"]]

\* The mark states of one glyph instance: every capability draws, or one
\* declines, or the class of the last one is unresolvable.
MarkRows(M) ==
  {AllDraw(M), [AllDraw(M) EXCEPT ![M].cls = "none"]}
  \cup {[AllDraw(M) EXCEPT ![k].graphics = "null"] : k \in 1..M}

InstanceOptions(M) == {[pos |-> p, marks |-> m] : p \in Positions, m \in MarkRows(M)}

BasicInstance ==
  [pos |-> [x |-> 12, y |-> 9, anchorX |-> 5, anchorY |-> 5], marks |-> AllDraw(1)]

ObjectProperties(k) ==
  [enableTooltips |-> TRUE, enableContextMenu |-> (k % 2 = 1), enableSelection |-> TRUE]

MarkState(n, i, k, io) ==
  [id |-> <<n, i, k>>, cls |-> io.marks[k].cls, graphics |-> io.marks[k].graphics,
   attributes |-> IF k = 1 THEN [x |-> io.pos.anchorX, y |-> io.pos.anchorY]
                           ELSE [x |-> io.pos.anchorX + k, y |-> io.pos.anchorY + k],
   properties |-> ObjectProperties(k)]

GlyphState(n, i, io) ==
  [attributes |-> [x |-> io.pos.x, y |-> io.pos.y],
   emphasized |-> (i = 1),
   marks |-> [k \in 1..Len(io.marks) |-> MarkState(n, i, k, io)]]

\* The state of element n; a plot segment holds one glyph state per
\* instance and the data row of each (rows are dealt out in element order).
ElementState(n, opt, inst) ==
  LET ps == isType(opt.classID, "plot-segment") IN
  [id |-> <<n, 0, 0>>, cls |-> opt.cls, graphics |-> opt.graphics,
   properties |-> ObjectProperties(1),
   attributes |-> [x |-> 0, y |-> 0],
   glyphs |-> IF ps THEN [i \in 1..Len(inst) |-> GlyphState(n, i, inst[i])] ELSE <<>>,
   dataRowIndices |-> IF ps THEN [i \in 1..Len(inst) |-> <<(n - 1) * Len(inst) + i - 1>>]
                            ELSE <<>>]

\* A manager: the chart (elements and the glyph templates g0 and g1, g1
\* with the given mark visibilities) and the index-aligned state tree.
MakeManager(elems, tmpl, inst, bg) ==
  [dataset |-> [tables |-> <<"main">>],
   chart |->
     [elements |-> [n \in 1..Len(elems) |->
                      [_id |-> ElementId(n), classID |-> elems[n].classID,
                       properties |-> [visible |-> elems[n].visible],
                       glyph |-> elems[n].glyph]],
      glyphs |-> <<[_id |-> "g0", marks |-> <<[properties |-> [visible |-> FALSE]]>>],
                   [_id |-> "g1",
                    marks |-> [k \in 1..Len(tmpl) |-> [properties |-> [visible |-> tmpl[k]]]]]>>],
   chartState |->
     [id |-> <<0, 0, 0>>,
      cls |-> IF bg = "none" THEN "none" ELSE "ok",
      graphics |-> bg,
      elements |-> [n \in 1..Len(elems) |-> ElementState(n, elems[n], inst)]]]

\* The manager of a caller that only facets: no element, and a chart state
\* whose class is not registered.
EmptyManager == MakeManager(<<>>, <<TRUE>>, <<>>, "none")

NoGroup == Null

(***************************************************************************)
(* The state machine                                                       *)
(***************************************************************************)

\* A renderer over a chart that varies the element list, over simple
\* plot-segment contents; facetRows has nothing to facet.
InitElementCases ==
  /\ \E elems \in SeqsUpTo(ElementOptions, MaxElements) :
       \E inst \in {<<>>, <<BasicInstance>>} :
         \E bg \in {"none", "null", "prim"} :
           manager = MakeManager(elems, <<TRUE>>, inst, bg)
  /\ renderEvents \in {Null, [afterRendered |-> FALSE], [afterRendered |-> TRUE]}
  /\ facetArgs = NoFacetInput

\* A renderer over a chart of two plot segments that varies the glyph
\* template and the glyph instances.
InitGlyphCases ==
  /\ \E M \in 1..MaxMarks :
       \E tmpl \in [1..M -> BOOLEAN] :
         \E inst \in SeqsUpTo(InstanceOptions(M), MaxGlyphs) :
           manager = MakeManager(<<VisiblePlotSegment, VisiblePlotSegment>>,
                                 tmpl, inst, "prim")
  /\ renderEvents = [afterRendered |-> TRUE]
  /\ facetArgs = NoFacetInput

\* Arguments of facetRows in which every index addresses a row, beside a
\* renderer that has nothing to render.
InitFacetCases ==
  /\ manager = EmptyManager
  /\ renderEvents = Null
  /\ \E r \in SeqsUpTo(RowOptions, MaxRows) :
       \E ix \in SeqsUpTo(0..(Len(r) - 1), MaxIndices) :
         \E c \in ColumnsOptions :
           facetArgs = [rows |-> r, indices |-> ix, columns |-> c]

Init ==
  /\ pc = "idle"
  /\ group = NoGroup
  /\ prevGroup = NoGroup
  /\ log = <<>>
  /\ facetResult = [called |-> FALSE, groups |-> <<>>]
  /\ (InitElementCases \/ InitGlyphCases \/ InitFacetCases)

\* A call of facetRows by its caller.
FacetRows ==
  /\ ~facetResult.called
  /\ \E w \in {facetRowsWrites(facetArgs.rows, facetArgs.indices, facetArgs.columns)} :
       /\ facetResult' = [called |-> TRUE,
                          groups |-> facetRows(facetArgs.rows, facetArgs.indices,
                                               facetArgs.columns)]
       /\ facetArgs' = [facetArgs EXCEPT !.rows = w.rows, !.indices = w.indices]
  /\ UNCHANGED <<manager, renderEvents, pc, group, log, prevGroup>>

\* render() is entered and renderChart runs (lines 208-212); a throw leaves
\* render at once.
RenderChart ==
  /\ pc \in {"idle", "returned", "failed"}
  /\ \E r \in {renderChart(manager.dataset, manager.chart, manager.chartState)} :
       /\ pc' = IF r.fault THEN "failed" ELSE "assembled"
       /\ group' = IF r.fault THEN NoGroup ELSE r.group
       /\ log' = r.calls
       /\ manager' = renderWrites(manager, r.writes)
  /\ prevGroup' = IF pc = "returned" THEN group ELSE prevGroup
  /\ UNCHANGED <<renderEvents, facetArgs, facetResult>>

\* Lines 213-215.
AfterRendered ==
  /\ pc = "assembled"
  /\ log' = log \o afterRenderedCalls(renderEvents)
  /\ pc' = "notified"
  /\ UNCHANGED <<manager, renderEvents, group, prevGroup, facetArgs, facetResult>>

\* return group  (line 216)
Return ==
  /\ pc = "notified"
  /\ pc' = "returned"
  /\ UNCHANGED <<manager, renderEvents, group, log, prevGroup, facetArgs, facetResult>>

Next == FacetRows \/ RenderChart \/ AfterRendered \/ Return

Spec == Init /\ [][Next]_vars

(***************************************************************************)
(* Reading the manager and the rendered tree                               *)
(***************************************************************************)

Chart == manager.chart

ChartState == manager.chartState

\* render has a tree in hand: renderChart returned normally.
Assembled == pc \in {"assembled", "notified", "returned"}

IndexSeq(n) == [j \in 1..n |-> j]

\* The positions of the visible elements, in specification order.
VisibleElements ==
  LET Vis(n) == Chart.elements[n].properties.visible
  IN SelectSeq(IndexSeq(Len(Chart.elements)), Vis)

VisiblePlotSegments ==
  {n \in 1..Len(Chart.elements) :
     /\ Chart.elements[n].properties.visible
     /\ isType(Chart.elements[n].classID, "plot-segment")}

\* The glyph template element n names, Null when the chart has none.
Template(n) ==
  IF \E t \in 1..Len(Chart.glyphs) : Chart.glyphs[t]._id = Chart.elements[n].glyph
    THEN Chart.glyphs[CHOOSE t \in 1..Len(Chart.glyphs) :
                        Chart.glyphs[t]._id = Chart.elements[n].glyph]
    ELSE Null

Instances(n) == ChartState.elements[n].glyphs

\* The child of the root group keyed with the id of element n.
ElementGroup(n) ==
  group.elements[CHOOSE j \in 1..Len(group.elements) :
                   /\ group.elements[j].type = "group"
                   /\ group.elements[j].key = Chart.elements[n]._id]

\* The layer groups of plot segment n: the children of its glyph-layer group.
Layers(n) == ElementGroup(n).elements[2].elements[1].elements

\* The slot of mark k of glyph instance i (both 1-based) of plot segment n.
Slot(n, k, i) == Layers(n)[k].elements[i]

\* Mark k of instance i of plot segment n is visible and its capability draws.
Draws(n, k, i) ==
  /\ Template(n).marks[k].properties.visible
  /\ Instances(n)[i].marks[k].graphics = "prim"

GlyphCalls == {j \in 1..Len(log) : log[j].op = "mark.getGraphics" /\ log[j].state[2] >= 1}

Notifications == {j \in 1..Len(log) : log[j].op = "afterRendered"}

NotificationSupplied == renderEvents # Null /\ renderEvents.afterRendered

(***************************************************************************)
(* Claims                                                                  *)
(***************************************************************************)

\* Two row indices have exactly equal values at every listed column.
SameFacet(v, w) ==
  \A j \in 1..Len(facetArgs.columns.items) :
    RowGet(facetArgs.rows[v + 1], facetArgs.columns.items[j])
      = RowGet(facetArgs.rows[w + 1], facetArgs.columns.items[j])

FirstPosition(v) ==
  CHOOSE n \in 1..Len(facetArgs.indices) :
    /\ SameFacet(facetArgs.indices[n], v)
    /\ \A m \in 1..(n - 1) : ~SameFacet(facetArgs.indices[m], v)

C2_NoColumnsOneGroup ==
  (facetResult.called /\ facetArgs.columns.isNull) =>
    /\ Len(facetResult.groups) = 1
    /\ facetResult.groups[1] = facetArgs.indices

\* C2 witness: a call without columns over three indices of distinct rows.
C2_Witness ==
  /\ facetResult.called
  /\ facetArgs.columns.isNull
  /\ Len(facetArgs.indices) = 3
  /\ facetArgs.indices[1] # facetArgs.indices[2]
  /\ facetArgs.rows[1] # facetArgs.rows[2]

\* C3 as stated: every visible plot segment has one layer group per mark of
\* its glyph template.
C3_LayerPerTemplateMark ==
  Assembled =>
    \A n \in VisiblePlotSegments :
      Template(n) # Null => Len(Layers(n)) = Len(Template(n).marks)

\* C3 amended: a visible plot segment with at least one glyph instance has
\* one layer group per mark of its glyph template, and layer k holds the
\* k-th slot of every instance, one per instance in instance order, a null
\* slot staying in place; a plot segment without glyph instances has no
\* layer group.
C3_LayersOfInstances ==
  Assembled =>
    \A n \in VisiblePlotSegments :
      IF Len(Instances(n)) = 0
        THEN Len(Layers(n)) = 0
        ELSE /\ Len(Layers(n)) = Len(Template(n).marks)
             /\ \A k \in 1..Len(Layers(n)) :
                  /\ Layers(n)[k].type = "group"
                  /\ Len(Layers(n)[k].elements) = Len(Instances(n))
                  /\ \A i \in 1..Len(Instances(n)) :
                       IF Draws(n, k, i)
                         THEN /\ Slot(n, k, i) # Null
                              /\ Slot(n, k, i).elements[1].state = <<n, i, k>>
                         ELSE Slot(n, k, i) = Null

\* C3 witness: two instances of a two-mark template, the first layer holding
\* a null slot before a drawn one.
C3_Witness ==
  /\ Assembled
  /\ \E n \in VisiblePlotSegments :
       /\ Len(Instances(n)) = 2
       /\ Len(Layers(n)) = 2
       /\ Slot(n, 1, 1) = Null
       /\ Slot(n, 1, 2) # Null
       /\ Slot(n, 2, 1) # Null

\* C4: an invisible mark yields a null slot at its own position for every
\* glyph instance, whatever its capability returns, and the slots of the
\* visible marks stay at their positions.
C4_InvisibleMarkNull ==
  Assembled =>
    \A n \in VisiblePlotSegments :
      \A i \in 1..Len(Instances(n)) :
        \A k \in 1..Len(Template(n).marks) :
          IF ~Template(n).marks[k].properties.visible
            THEN Slot(n, k, i) = Null
            ELSE Slot(n, k, i) # Null => Slot(n, k, i).elements[1].state = <<n, i, k>>

\* C4 witness: an invisible first mark whose capability would draw, next to
\* a visible second mark that is drawn.
C4_Witness ==
  /\ Assembled
  /\ \E n \in VisiblePlotSegments :
       /\ Len(Instances(n)) >= 1
       /\ Len(Template(n).marks) = 2
       /\ ~Template(n).marks[1].properties.visible
       /\ Instances(n)[1].marks[1].graphics = "prim"
       /\ Instances(n)[1].marks[1].cls = "ok"
       /\ Slot(n, 1, 1) = Null
       /\ Slot(n, 2, 1) # Null

\* C5: the root group holds the background when there is one, the link
\* group, then one group per visible element in specification order, keyed
\* with the element's id and built from the state at the element's index;
\* an invisible element contributes nothing.
C5_RootChildren ==
  Assembled =>
    LET ch == group.elements
        b == IF ChartState.graphics = "prim" THEN 1 ELSE 0
        vis == VisibleElements
    IN /\ Len(ch) = b + 1 + Len(vis)
       /\ b = 1 => (ch[1].type = "primitive" /\ ch[1].by = "getBackgroundGraphics")
       /\ ch[b + 1] = makeGroup(<<>>)
       /\ \A m \in 1..Len(vis) :
            LET g == ch[b + 1 + m] IN
            /\ g.type = "group"
            /\ g.key = Chart.elements[vis[m]]._id
            /\ IF isType(Chart.elements[vis[m]].classID, "plot-segment")
                 THEN /\ Len(g.elements) = 2
                      /\ g.elements[1].elements[1].state = <<vis[m], 0, 0>>
                      /\ g.elements[2].state = <<vis[m], 0, 0>>
                 ELSE /\ Len(g.elements) = 1
                      /\ g.elements[1] # Null => g.elements[1].state = <<vis[m], 0, 0>>
                      /\ g.elements[1] = Null <=>
                           ChartState.elements[vis[m]].graphics = "null"

\* C5 witness: a background, an invisible first element and a visible second.
C5_Witness ==
  /\ Assembled
  /\ ChartState.graphics = "prim"
  /\ Len(Chart.elements) = 2
  /\ ~Chart.elements[1].properties.visible
  /\ Chart.elements[2].properties.visible
  /\ Len(group.elements) = 3
  /\ group.elements[3].key = "e2"

\* C6: every drawing invocation of a mark of a glyph instance receives the
\* offset (glyph x - first mark x, glyph y - first mark y) of its instance
\* and the instance's glyph index, and in an assembled tree every visible
\* mark of every instance of a visible plot segment was invoked.
C6_GlyphOffset ==
  /\ \A j \in GlyphCalls :
       LET n == log[j].state[1]
           i == log[j].state[2]
           gs == Instances(n)[i]
       IN /\ log[j].offset = [x |-> gs.attributes.x - gs.marks[1].attributes.x,
                              y |-> gs.attributes.y - gs.marks[1].attributes.y]
          /\ log[j].index = i - 1
  /\ Assembled =>
       \A n \in VisiblePlotSegments :
         \A i \in 1..Len(Instances(n)) :
           \A k \in 1..Len(Template(n).marks) :
             Template(n).marks[k].properties.visible =>
               \E j \in GlyphCalls : log[j].state = <<n, i, k>>

\* C6 witness: an instance at (12, 9) anchored at (5, 5) whose two visible
\* marks were both invoked with the offset (7, 4).
C6_Witness ==
  /\ Assembled
  /\ \E n \in VisiblePlotSegments :
       \E i \in 1..Len(Instances(n)) :
         /\ Instances(n)[i].attributes = [x |-> 12, y |-> 9]
         /\ Instances(n)[i].marks[1].attributes = [x |-> 5, y |-> 5]
         /\ \A k \in 1..2 :
              \E j \in GlyphCalls : /\ log[j].state = <<n, i, k>>
                                    /\ log[j].offset = [x |-> 7, y |-> 4]

\* C7: a supplied notification has not fired while the tree is assembled or
\* when assembly threw; once render has passed its notification step it has
\* fired exactly once, as the last invocation, with the tree in hand.
C7_NotifiedOnce ==
  /\ pc \in {"idle", "assembled", "failed"} => Notifications = {}
  /\ (pc \in {"notified", "returned"} /\ NotificationSupplied) =>
       /\ Notifications = {Len(log)}
       /\ group # NoGroup
  /\ (pc \in {"notified", "returned"} /\ ~NotificationSupplied) => Notifications = {}

\* C7 witness: render returned, the notification fired, and the chart has
\* elements none of which is visible.
C7_Witness ==
  /\ pc = "returned"
  /\ NotificationSupplied
  /\ Len(Chart.elements) = 2
  /\ Len(VisibleElements) = 0
  /\ Cardinality(Notifications) = 1

\* C8: every non-null slot of a glyph mark wraps a primitive whose selectable
\* names the plot segment being rendered, the glyph index of its instance
\* and the row indices of that plot segment's state at that glyph index.
C8_SelectableOwner ==
  Assembled =>
    \A n \in VisiblePlotSegments :
      \A k \in 1..Len(Layers(n)) :
        \A i \in 1..Len(Layers(n)[k].elements) :
          Slot(n, k, i) # Null =>
            LET sel == Slot(n, k, i).elements[1].selectable IN
            /\ sel.plotSegment = Chart.elements[n]._id
            /\ sel.glyphIndex = i - 1
            /\ sel.rowIndices = ChartState.elements[n].dataRowIndices[i]

\* C8 witness: two visible plot segments, each with a drawn mark in its
\* second glyph instance.
C8_Witness ==
  /\ Assembled
  /\ VisiblePlotSegments = {1, 2}
  /\ \A n \in {1, 2} : /\ Len(Instances(n)) = 2
                       /\ Slot(n, 1, 2) # Null
                       /\ Slot(n, 1, 2).elements[1].selectable.rowIndices
                            = ChartState.elements[n].dataRowIndices[2]
  /\ ChartState.elements[1].dataRowIndices[2] # ChartState.elements[2].dataRowIndices[2]

\* A lookup the chart cannot satisfy: the chart class, the class of a
\* visible element, the glyph template of a visible plot segment, or the
\* class of a mark state of a visible mark.
MissingLookup ==
  \/ ChartState.cls = "none"
  \/ \E n \in 1..Len(Chart.elements) :
       /\ Chart.elements[n].properties.visible
       /\ \/ ChartState.elements[n].cls = "none"
          \/ /\ isType(Chart.elements[n].classID, "plot-segment")
             /\ \/ Template(n) = Null
                \/ \E i \in 1..Len(Instances(n)) :
                     \E k \in 1..Len(Instances(n)[i].marks) :
                       /\ k <= Len(Template(n).marks)
                       /\ Template(n).marks[k].properties.visible
                       /\ Instances(n)[i].marks[k].cls = "none"

\* C9: with a missing lookup the render call fails: no tree is returned.
C9_MissingLookupFails == MissingLookup => ~Assembled

\* C10: a call of render, with every assignment and push it makes applied to
\* the object it is made on, leaves the dataset, the chart and the state tree
\* as they were; a call of facetRows, with its pushes applied to the arrays
\* they are made on, leaves rows and indices as they were; and a render after
\* a render on the same inputs assembles the same tree.
C10_InputsUnchanged ==
  [][/\ manager' = manager
     /\ facetArgs' = facetArgs
     /\ (pc' = "assembled" /\ prevGroup' # NoGroup) => group' = prevGroup']_vars

\* C10 witness: a second render of a chart with glyph instances, whose marks
\* were assigned their selectable metadata, has assembled the tree of the
\* first.
C10_Witness ==
  /\ pc = "returned"
  /\ prevGroup # NoGroup
  /\ group = prevGroup
  /\ \E n \in VisiblePlotSegments :
       /\ Len(Instances(n)) = 2
       /\ \E k \in 1..Len(Layers(n)) :
            /\ Slot(n, k, 1) # Null
            /\ Slot(n, k, 1).elements[1].selectable # Null

====
